---- MODULE Spec2Model ----
(***************************************************************************)
(* Weather provider cache / rate limiting (server/weather.ts), multi-tier  *)
(* barcode resolution and the scan-barcode create-if-absent flow           *)
(* (server/routes.ts) of the inventory application.                        *)
(***************************************************************************)
EXTENDS Integers, Sequences, FiniteSets, TLC

\* ------------------------------------------------------------------------
\* Bounds of the model
\* ------------------------------------------------------------------------
MaxTime == 3

\* ------------------------------------------------------------------------
\* Weather provider: configuration and helpers
\* ------------------------------------------------------------------------
\* apiManager.getConfig('weather'): cache TTL, window length and call budget,
\* in clock ticks / calls.
CacheTTL == 2
WindowMs == 3
MaxCallsPerWindow == 3

WReqs == {"w1", "w2"}
Locations == {"NY", "ny", "LA"}
Observations == {"obsA", "obsB"}

\* String.prototype.toLowerCase on the locations of the model.
ToLowerCase(s) ==
  CASE s = "NY" -> "ny"
    [] s = "ny" -> "ny"
    [] s = "LA" -> "la"
    [] OTHER -> s

\* cacheKey = sanitizedLocation.toLowerCase()
CacheKey(loc) == ToLowerCase(loc)

Keys == {CacheKey(l) : l \in Locations}

NoEntry == [present |-> FALSE, data |-> "none", timestamp |-> 0]
Entry(d, t) == [present |-> TRUE, data |-> d, timestamp |-> t]

\* Variant: the synthetic observation is stored without the time of its
\* generation.
DemoEntryUnstamped(obs, t) == Entry(obs, 0)

\* weatherCache.set(cacheKey, { data: weatherData, timestamp: Date.now() }) of
\* the synthetic observation.
DemoEntry(obs, t) == Entry(obs, t)

\* Variant of the cache test without the age test.
AnyEntryServed(cached, t) == cached.present

\* Variant of the cache test that still serves an entry of age ttl.
StaleServed(cached, t) == cached.present /\ t - cached.timestamp <= CacheTTL

\* cached && Date.now() - cached.timestamp < config.cacheTTL
CacheLive(cached, t) == cached.present /\ t - cached.timestamp < CacheTTL

\* Rate-limit state of the provider: reset when the window has elapsed.
WindowReset(rl, t) ==
  IF t - rl.windowStart >= WindowMs
    THEN [windowStart |-> t, callCount |-> 0]
    ELSE rl

\* apiManager.checkRateLimit('weather'): the state after the check and the verdict.
CheckRateLimit(rl, t) ==
  [state |-> WindowReset(rl, t),
   allowed |-> WindowReset(rl, t).callCount < MaxCallsPerWindow]

\* apiManager.recordApiCall('weather', ok): every attempted call counts.
RecordApiCall(rl, t) ==
  [WindowReset(rl, t) EXCEPT !.callCount = @ + 1]

\* Variant: the rate limit is checked before the cache.
FirstSegmentRateFirst(cached, rl, t, hasKey) ==
  LET chk == CheckRateLimit(rl, t) IN
  IF ~chk.allowed THEN [path |-> "limited", rl |-> chk.state]
  ELSE IF CacheLive(cached, t) THEN [path |-> "hit", rl |-> chk.state]
  ELSE IF ~hasKey THEN [path |-> "demo", rl |-> chk.state]
  ELSE [path |-> "fetch", rl |-> chk.state]

\* Variant: the verdict of the rate-limit check is ignored.
FirstSegmentNoLimit(cached, rl, t, hasKey) ==
  LET chk == CheckRateLimit(rl, t) IN
  IF CacheLive(cached, t) THEN [path |-> "hit", rl |-> rl]
  ELSE IF ~hasKey THEN [path |-> "demo", rl |-> chk.state]
  ELSE [path |-> "fetch", rl |-> chk.state]

\* The synchronous first segment of getWeatherData (cache check, then rate-limit
\* check, then the credential test): which path the call takes and the
\* rate-limit state it leaves.
FirstSegment(cached, rl, t, hasKey) ==
  LET chk == CheckRateLimit(rl, t) IN
  IF CacheLive(cached, t) THEN [path |-> "hit", rl |-> rl]
  ELSE IF ~chk.allowed THEN [path |-> "limited", rl |-> chk.state]
  ELSE IF ~hasKey THEN [path |-> "demo", rl |-> chk.state]
  ELSE [path |-> "fetch", rl |-> chk.state]

\* ------------------------------------------------------------------------
\* Barcode resolution: texts, tiers and the catalog
\* ------------------------------------------------------------------------
SReqs == {"s1", "s2"}

\* Texts are sequences of characters.
B13 == <<"7", "5", "0", "1", "0", "6", "4", "1", "9", "1", "1", "1", "4">>
B12 == <<"0", "1", "2", "3", "4", "5", "6", "7", "8", "9", "0", "5">>
ShortCode == <<"1", "2", "3", "4">>

\* textAnnotations[0].description values the OCR may deliver.
DetectedTexts ==
  { <<>>,
    B13,
    <<"U", "P", "C", " ">> \o B12 \o <<" ", "x">>,
    B13 \o <<"9">>,
    <<"A">> \o B13,
    SubSeq(B12, 1, 11) }

\* :barcode values of GET /api/upc-lookup/:barcode.
UpcBarcodes == {B13, ShortCode}

Barcodes == {B12, B13, ShortCode}

IsDigit(c) == c \in {"0", "1", "2", "3", "4", "5", "6", "7", "8", "9"}
LowerLetters ==
  <<"a", "b", "c", "d", "e", "f", "g", "h", "i", "j", "k", "l", "m",
    "n", "o", "p", "q", "r", "s", "t", "u", "v", "w", "x", "y", "z">>
UpperLetters ==
  <<"A", "B", "C", "D", "E", "F", "G", "H", "I", "J", "K", "L", "M",
    "N", "O", "P", "Q", "R", "S", "T", "U", "V", "W", "X", "Y", "Z">>
IsLetter(c) == \E i \in 1..26 : c = LowerLetters[i] \/ c = UpperLetters[i]

\* \w of a regular expression.
IsWordChar(c) == IsDigit(c) \/ IsLetter(c) \/ c = "_"

\* \b before position i of t (i = Len(t) + 1 is the end of the text).
BoundaryAt(t, i) ==
  LET before == i > 1 /\ IsWordChar(t[i - 1])
      after == i <= Len(t) /\ IsWordChar(t[i])
  IN before # after

\* \b\d{n}\b matches t at position i.
DigitsAt(t, i, n) ==
  /\ i + n - 1 <= Len(t)
  /\ \A j \in i..(i + n - 1) : IsDigit(t[j])
  /\ BoundaryAt(t, i)
  /\ BoundaryAt(t, i + n)

\* Length matched by \b\d{12,13}\b at position i (greedy), 0 when none.
MatchLen(t, i) ==
  IF DigitsAt(t, i, 13) THEN 13
  ELSE IF DigitsAt(t, i, 12) THEN 12
  ELSE 0

\* detectedText.match(/\b\d{12,13}\b/): the first match, <<>> for null.
BarcodeMatch(t) ==
  LET starts == {i \in 1..Len(t) : MatchLen(t, i) > 0} IN
  IF starts = {} THEN <<>>
  ELSE LET i == CHOOSE x \in starts : \A y \in starts : x <= y
       IN SubSeq(t, i, i + MatchLen(t, i) - 1)

\* Variant: the first two try blocks in the other order.
TierSourceSwapped(k) ==
  CASE k = 1 -> "upcitemdb"
    [] k = 2 -> "openfoodfacts"
    [] k = 3 -> "barcodelookup"
    [] k = 4 -> "cocktaildb"

\* The source each tier reports, in the order of the try blocks.
TierSource(k) ==
  CASE k = 1 -> "openfoodfacts"
    [] k = 2 -> "upcitemdb"
    [] k = 3 -> "barcodelookup"
    [] k = 4 -> "cocktaildb"

\* What a tier's fetch and the code reading its response can come to: a usable
\* result (whose name field may be absent, "none"), a well-formed response that
\* is no result, a non-success status, a rejected fetch, a body json() rejects,
\* a body whose shape makes a property access throw.
HitNames == {"Corona Extra", "Unknown Product", "none"}
FailKinds == {"miss", "notok", "netfail", "unparsable", "misshaped"}
TierOutcomes ==
  {[kind |-> "hit", name |-> n] : n \in HitNames} \cup
  {[kind |-> k, name |-> "none"] : k \in FailKinds}

\* Variant: the fetch is outside the try block.
CaughtButFetch(k, kind) == kind # "netfail"

\* Every tier's fetch, json() and field accesses are inside its try block.
Caught(k, kind) == TRUE

\* Variant: tier 4 is queried whatever the length of the barcode.
NextTierAlways(k, barcode) == IF k < 4 THEN k + 1 ELSE 0

\* The tier whose fetch follows the failure of tier k, 0 when there is none:
\* tier 4 is queried only when barcode.length >= 8.
NextTier(k, barcode) ==
  IF k < 3 THEN k + 1
  ELSE IF k = 3 /\ Len(barcode) >= 8 THEN 4
  ELSE 0

NoInfo == [name |-> "none", source |-> "none"]
Fallback == [name |-> "Unknown Product", source |-> "fallback"]

\* Variant: only the presence of a name is tested.
NameAny(info) == info.name # "none"

\* productInfo.name && productInfo.name !== 'Unknown Product'
NameValid(info) == info.name # "none" /\ info.name # "Unknown Product"

\* success: productInfo.name !== 'Unknown Product'  (GET /api/upc-lookup)
UpcSuccess(info) == info.name # "Unknown Product"

\* Positions of the products with the barcode.
InCatalog(products, barcode) ==
  {i \in 1..Len(products) : products[i].barcode = barcode}

\* storage.getProductByBarcode: the id of the first product with the barcode,
\* 0 for undefined.
GetProductByBarcode(products, barcode) ==
  LET ids == {i \in 1..Len(products) : products[i].barcode = barcode} IN
  IF ids = {} THEN 0 ELSE CHOOSE i \in ids : \A j \in ids : i <= j

\* Variant: the existence test is dropped.
AlwaysCreate(existing) == TRUE

\* Variant: nothing is ever created.
NeverCreate(existing) == FALSE

\* if (!existingProduct)
NeedsCreate(existing) == existing = 0

UpcSku(barcode) == <<"U", "P", "C", "-">> \o barcode

\* Variant: another default par level.
InsertProductParTwelve(barcode, info) ==
  [sku |-> UpcSku(barcode), name |-> info.name, unitPrice |-> "0.00",
   parLevel |-> 12, barcode |-> barcode]

\* The argument of storage.createProduct in the scan flow.
InsertProduct(barcode, info) ==
  [sku |-> UpcSku(barcode), name |-> info.name, unitPrice |-> "0.00",
   parLevel |-> 10, barcode |-> barcode]

\* MemStorage.createProduct: the next id, and the product stored under it.
CreateProduct(products, insert) ==
  Append(products,
         [id |-> Len(products) + 1, sku |-> insert.sku, name |-> insert.name,
          unitPrice |-> insert.unitPrice, parLevel |-> insert.parLevel,
          barcode |-> insert.barcode])

\* A product the catalog may hold before any scan.
SeedProduct ==
  [id |-> 1, sku |-> <<"B", "E", "E", "R">>, name |-> "Corona Extra 12oz",
   unitPrice |-> "28.24", parLevel |-> 8, barcode |-> B12]

\* ------------------------------------------------------------------------
\* State
\* ------------------------------------------------------------------------
VARIABLES
  now,          \* Date.now(), in ticks
  apiKey,       \* config.key is configured
  weatherCache, \* weatherCache: cache key -> entry
  rateLimit,    \* the weather provider's window start and call counter
  wreq,         \* the getWeatherData calls in progress
  visionKey,    \* process.env.GOOGLE_CLOUD_API_KEY is set
  catalog,      \* storage: the products, in order of creation
  createCount,  \* barcode -> number of createProduct calls made for it
  sreq,         \* the /api/scan-barcode and /api/upc-lookup requests in progress
  pure          \* the call of a pure function in progress: its argument and result

wvars == <<now, apiKey, weatherCache, rateLimit, wreq>>
svars == <<visionKey, catalog, createCount, sreq>>
pvars == <<pure>>
vars == <<now, apiKey, weatherCache, rateLimit, wreq,
          visionKey, catalog, createCount, sreq, pure>>

\* No pure function is being called.
NoCall == [fn |-> "none", pc |-> "idle"]

WIdle ==
  [pc |-> "idle", key |-> "none", fresh |-> FALSE,
   current |-> "none", result |-> "none", err |-> "none"]

\* Time passes.
Tick ==
  /\ now < MaxTime
  /\ now' = now + 1
  /\ UNCHANGED <<apiKey, weatherCache, rateLimit, wreq, svars, pvars>>

\* getWeatherData(location), up to its first suspension or its return.
GetWeatherData(r, loc) ==
  /\ wreq[r].pc = "idle"
  /\ LET key == CacheKey(loc)
         cached == weatherCache[key]
         seg == FirstSegment(cached, rateLimit, now, apiKey)
         base == WIdle
     IN
     /\ rateLimit' = seg.rl
     /\ CASE seg.path = "hit" ->
               /\ wreq' = [wreq EXCEPT ![r] =
                    [base EXCEPT !.pc = "returned", !.result = cached.data]]
               /\ UNCHANGED weatherCache
          [] seg.path = "limited" ->
               /\ wreq' = [wreq EXCEPT ![r] =
                    [base EXCEPT !.pc = "threw", !.err = "ratelimit",
                                 !.key = key]]
               /\ UNCHANGED weatherCache
          [] seg.path = "demo" ->
               \E obs \in Observations :
                 /\ weatherCache' = [weatherCache EXCEPT ![key] = DemoEntry(obs, now)]
                 /\ wreq' = [wreq EXCEPT ![r] =
                      [base EXCEPT !.pc = "returned", !.result = obs,
                                   !.fresh = TRUE]]
          [] seg.path = "fetch" ->
               /\ wreq' = [wreq EXCEPT ![r] =
                    [base EXCEPT !.pc = "awaitCurrent", !.key = key,
                                 !.fresh = TRUE]]
               /\ UNCHANGED weatherCache
  /\ UNCHANGED <<now, apiKey, svars, pvars>>

\* Outcomes of the awaited upstream calls.  A rejected fetch is "netfail";
\* otherwise the response has a status and a body.
CurrentOutcomes == {"netfail", "notok", "unparsable", "misshaped"} \cup Observations
ForecastStatuses == {"netfail", "ok", "notok"}
ForecastBodies == {"unparsable", "nolist", "list"}

\* Variant: no upstream call is recorded.
RateAfterFetchUnrecorded(rl, t, settled) == rl

\* The rate-limit state once an awaited fetch has settled: recordApiCall runs
\* on the line after the await, so only when the fetch resolved.
RateAfterFetch(rl, t, settled) ==
  IF settled = "netfail" THEN rl ELSE RecordApiCall(rl, t)

\* await fetch(current weather) settles: recordApiCall, the status test,
\* currentResponse.json(), then the forecast fetch is issued.
CurrentResponse(r, outcome) ==
  /\ wreq[r].pc = "awaitCurrent"
  /\ rateLimit' = RateAfterFetch(rateLimit, now, outcome)
  /\ wreq' = [wreq EXCEPT ![r] =
       CASE outcome = "netfail" ->
              [WIdle EXCEPT !.pc = "threw", !.err = "network", !.key = wreq[r].key]
         [] outcome = "notok" ->
              [WIdle EXCEPT !.pc = "threw", !.err = "api", !.key = wreq[r].key]
         [] outcome = "unparsable" ->
              [WIdle EXCEPT !.pc = "threw", !.err = "parse", !.key = wreq[r].key]
         [] OTHER ->
              [@ EXCEPT !.pc = "awaitForecast", !.current = outcome]]
  /\ UNCHANGED <<now, apiKey, weatherCache, svars, pvars>>

\* Whether the code after the forecast fetch reaches weatherCache.set: the
\* forecast status is recorded and logged but never tested, so only the
\* bodies decide.
ForecastCaches(status, body, current) ==
  /\ status # "netfail"
  /\ body = "list"
  /\ current # "misshaped"

\* await fetch(forecast) settles: recordApiCall, forecastResponse.json(), the
\* downsampling of forecastData.list, the cache write and the return.
ForecastResponse(r, status, body) ==
  /\ wreq[r].pc = "awaitForecast"
  /\ rateLimit' = RateAfterFetch(rateLimit, now, status)
  /\ IF ForecastCaches(status, body, wreq[r].current)
       THEN /\ weatherCache' =
                 [weatherCache EXCEPT ![wreq[r].key] = Entry(wreq[r].current, now)]
            /\ wreq' = [wreq EXCEPT ![r] =
                 [WIdle EXCEPT !.pc = "returned", !.result = wreq[r].current,
                               !.fresh = TRUE]]
       ELSE /\ UNCHANGED weatherCache
            /\ wreq' = [wreq EXCEPT ![r] =
                 IF status = "netfail"
                   THEN [WIdle EXCEPT !.pc = "threw", !.err = "network",
                                      !.key = wreq[r].key]
                   ELSE [WIdle EXCEPT !.pc = "threw", !.err = "parse",
                                      !.key = wreq[r].key]]
  /\ UNCHANGED <<now, apiKey, svars, pvars>>

\* The caller consumes the result or the error.
WeatherDone(r) ==
  /\ wreq[r].pc \in {"returned", "threw"}
  /\ wreq' = [wreq EXCEPT ![r] = WIdle]
  /\ UNCHANGED <<now, apiKey, weatherCache, rateLimit, svars, pvars>>

WNext ==
  \/ Tick
  \/ \E r \in WReqs, loc \in Locations : GetWeatherData(r, loc)
  \/ \E r \in WReqs, o \in CurrentOutcomes : CurrentResponse(r, o)
  \/ \E r \in WReqs, s \in ForecastStatuses, b \in ForecastBodies :
       ForecastResponse(r, s, b)
  \/ \E r \in WReqs : WeatherDone(r)

\* ------------------------------------------------------------------------
\* Barcode scan and lookup: requests
\* ------------------------------------------------------------------------
NoResp == [status |-> 0, success |-> FALSE, product |-> 0, kind |-> "none"]
Resp(st, ok, prod, kind) ==
  [status |-> st, success |-> ok, product |-> prod, kind |-> kind]

SIdle ==
  [pc |-> "idle", route |-> "none", barcode |-> <<>>, tier |-> 0, log |-> <<>>,
   info |-> NoInfo, absent |-> FALSE, gets |-> 0, creates |-> 0, resp |-> NoResp]

\* POST /api/scan-barcode up to the Vision call: the imageData and API key
\* tests, then the fetch is awaited.
ScanBarcode(s, hasImage) ==
  /\ sreq[s].pc = "idle"
  /\ sreq' = [sreq EXCEPT ![s] =
       IF ~hasImage
         THEN [SIdle EXCEPT !.pc = "responded", !.route = "scan",
                            !.resp = Resp(400, FALSE, 0, "noimage")]
       ELSE IF ~visionKey
         THEN [SIdle EXCEPT !.pc = "responded", !.route = "scan",
                            !.resp = Resp(500, FALSE, 0, "nokey")]
       ELSE [SIdle EXCEPT !.pc = "awaitVision", !.route = "scan"]]
  /\ UNCHANGED <<visionKey, catalog, createCount, wvars, pvars>>

\* What the Vision call can come to.
VisionOutcomes ==
  {[kind |-> k, text |-> <<>>] : k \in {"netfail", "403", "500", "noannotations"}}
    \cup {[kind |-> "text", text |-> t] : t \in DetectedTexts}

\* The Vision call settles: error statuses, the demo answer on 403, the
\* annotations test, the barcode pattern, and the call of
\* lookupProductByBarcode, which issues the fetch of tier 1.
VisionResponse(s, v) ==
  /\ sreq[s].pc = "awaitVision"
  /\ sreq' = [sreq EXCEPT ![s] =
       CASE v.kind = "netfail" ->
              [@ EXCEPT !.pc = "responded", !.resp = Resp(500, FALSE, 0, "failed")]
         [] v.kind = "403" ->
              [@ EXCEPT !.pc = "responded", !.resp = Resp(200, TRUE, 0, "demo")]
         [] v.kind = "500" ->
              [@ EXCEPT !.pc = "responded",
                        !.resp = Resp(500, FALSE, 0, "visionerror")]
         [] v.kind = "noannotations" ->
              [@ EXCEPT !.pc = "responded",
                        !.resp = Resp(200, FALSE, 0, "nobarcode")]
         [] OTHER ->
              IF BarcodeMatch(v.text) = <<>>
                THEN [@ EXCEPT !.pc = "responded",
                               !.resp = Resp(200, FALSE, 0, "nopattern")]
                ELSE [@ EXCEPT !.pc = "lookup", !.tier = 1,
                               !.barcode = BarcodeMatch(v.text),
                               !.absent = InCatalog(catalog, BarcodeMatch(v.text)) = {}]]
  /\ UNCHANGED <<visionKey, catalog, createCount, wvars, pvars>>

\* GET /api/upc-lookup/:barcode: lookupProductByBarcode is called.
UpcLookup(s, barcode) ==
  /\ sreq[s].pc = "idle"
  /\ sreq' = [sreq EXCEPT ![s] =
       [SIdle EXCEPT !.pc = "lookup", !.route = "upc", !.tier = 1,
                     !.barcode = barcode]]
  /\ UNCHANGED <<visionKey, catalog, createCount, wvars, pvars>>

\* The route's code after lookupProductByBarcode returned info, up to its next
\* await or its response.
AfterLookup(req, info) ==
  IF req.route = "upc"
    THEN [req EXCEPT !.pc = "responded", !.tier = 0, !.info = info,
                     !.resp = Resp(200, UpcSuccess(info), 0, "upc")]
  ELSE IF NameValid(info)
    THEN [req EXCEPT !.pc = "awaitGet", !.tier = 0, !.info = info,
                     !.gets = @ + 1]
  ELSE [req EXCEPT !.pc = "responded", !.tier = 0, !.info = info,
                   !.resp = Resp(200, FALSE, 0, "notfound")]

\* lookupProductByBarcode: the fetch of the current tier settles with outcome o.
TierResponse(s, o) ==
  /\ sreq[s].pc = "lookup"
  /\ LET req == sreq[s]
         k == req.tier
         logged == [req EXCEPT !.log =
                      Append(@, [tier |-> TierSource(k),
                                 usable |-> o.kind = "hit"])]
         nt == NextTier(k, req.barcode)
     IN sreq' = [sreq EXCEPT ![s] =
          IF o.kind = "hit"
            THEN AfterLookup(logged, [name |-> o.name, source |-> TierSource(k)])
          ELSE IF ~Caught(k, o.kind)
            THEN [logged EXCEPT !.pc = "responded", !.tier = 0,
                                !.resp = Resp(500, FALSE, 0, "raised")]
          ELSE IF nt = 0
            THEN AfterLookup(logged, Fallback)
          ELSE [logged EXCEPT !.tier = nt]]
  /\ UNCHANGED <<visionKey, catalog, createCount, wvars, pvars>>

\* await storage.getProductByBarcode(barcode) settles; when there is no such
\* product storage.createProduct is called.
GetProductReturns(s) ==
  /\ sreq[s].pc = "awaitGet"
  /\ LET existing == GetProductByBarcode(catalog, sreq[s].barcode) IN
     IF NeedsCreate(existing)
       THEN /\ sreq' = [sreq EXCEPT ![s] =
                 [@ EXCEPT !.pc = "awaitCreate", !.creates = @ + 1]]
            /\ createCount' =
                 [createCount EXCEPT ![sreq[s].barcode] = @ + 1]
       ELSE /\ sreq' = [sreq EXCEPT ![s] =
                 [@ EXCEPT !.pc = "responded",
                           !.resp = Resp(200, TRUE, existing, "found")]]
            /\ UNCHANGED createCount
  /\ UNCHANGED <<visionKey, catalog, wvars, pvars>>

\* await storage.createProduct(...) settles: the product is stored and the
\* response carries it.
CreateProductReturns(s) ==
  /\ sreq[s].pc = "awaitCreate"
  /\ catalog' = CreateProduct(catalog, InsertProduct(sreq[s].barcode, sreq[s].info))
  /\ sreq' = [sreq EXCEPT ![s] =
       [@ EXCEPT !.pc = "responded",
                 !.resp = Resp(200, TRUE, Len(catalog) + 1, "found")]]
  /\ UNCHANGED <<visionKey, createCount, wvars, pvars>>

\* The products.sku column is unique: a store that enforces it has a product
\* with the sku of the insert already.
SkuConflict(products, insert) ==
  \E i \in 1..Len(products) : products[i].sku = insert.sku

\* await storage.createProduct(...) rejects on the uniqueness conflict: the
\* catch block answers with the looked-up fields and no product.
CreateProductRejects(s) ==
  /\ sreq[s].pc = "awaitCreate"
  /\ SkuConflict(catalog, InsertProduct(sreq[s].barcode, sreq[s].info))
  /\ sreq' = [sreq EXCEPT ![s] =
       [@ EXCEPT !.pc = "responded",
                 !.resp = Resp(200, TRUE, 0, "createfailed")]]
  /\ UNCHANGED <<visionKey, catalog, createCount, wvars, pvars>>

\* The response has been sent.
ScanDone(s) ==
  /\ sreq[s].pc = "responded"
  /\ sreq' = [sreq EXCEPT ![s] = SIdle]
  /\ UNCHANGED <<visionKey, catalog, createCount, wvars, pvars>>

SNext ==
  \/ \E s \in SReqs, hasImage \in BOOLEAN : ScanBarcode(s, hasImage)
  \/ \E s \in SReqs, v \in VisionOutcomes : VisionResponse(s, v)
  \/ \E s \in SReqs, b \in UpcBarcodes : UpcLookup(s, b)
  \/ \E s \in SReqs, o \in TierOutcomes : TierResponse(s, o)
  \/ \E s \in SReqs : GetProductReturns(s)
  \/ \E s \in SReqs : CreateProductReturns(s)
  \/ \E s \in SReqs : CreateProductRejects(s)
  \/ \E s \in SReqs : ScanDone(s)

\* Requests that do not overlap in time: one starts only when no other is in
\* progress.
NoneInProgress == \A s \in SReqs : sreq[s].pc = "idle"
ScanBarcodeAlone(s, hasImage) == NoneInProgress /\ ScanBarcode(s, hasImage)
UpcLookupAlone(s, barcode) == NoneInProgress /\ UpcLookup(s, barcode)

SNextSeq ==
  \/ \E s \in SReqs, hasImage \in BOOLEAN : ScanBarcodeAlone(s, hasImage)
  \/ \E s \in SReqs, v \in VisionOutcomes : VisionResponse(s, v)
  \/ \E s \in SReqs, b \in UpcBarcodes : UpcLookupAlone(s, b)
  \/ \E s \in SReqs, o \in TierOutcomes : TierResponse(s, o)
  \/ \E s \in SReqs : GetProductReturns(s)
  \/ \E s \in SReqs : CreateProductReturns(s)
  \/ \E s \in SReqs : ScanDone(s)

\* ------------------------------------------------------------------------
\* Specifications
\* ------------------------------------------------------------------------
\* The weather provider after module load, with or without a credential; no
\* scan traffic.
InitWeather ==
  /\ now = 0
  /\ apiKey \in BOOLEAN
  /\ weatherCache = [k \in Keys |-> NoEntry]
  /\ rateLimit = [windowStart |-> 0, callCount |-> 0]
  /\ wreq = [r \in WReqs |-> WIdle]
  /\ visionKey = FALSE
  /\ catalog = <<>>
  /\ createCount = [b \in Barcodes |-> 0]
  /\ sreq = [s \in SReqs |-> SIdle]
  /\ pure = NoCall

\* The scan routes after start-up, with or without a Vision key, the catalog
\* empty or holding a product with a barcode; no weather traffic.
InitScan ==
  /\ visionKey \in BOOLEAN
  /\ catalog \in {<<>>, <<SeedProduct>>}
  /\ createCount = [b \in Barcodes |-> 0]
  /\ sreq = [s \in SReqs |-> SIdle]
  /\ now = 0
  /\ apiKey = FALSE
  /\ weatherCache = [k \in Keys |-> NoEntry]
  /\ rateLimit = [windowStart |-> 0, callCount |-> 0]
  /\ wreq = [r \in WReqs |-> WIdle]
  /\ pure = NoCall

SpecWeather == InitWeather /\ [][WNext]_vars

SpecScan == InitScan /\ [][SNext]_vars

SpecScanSeq == InitScan /\ [][SNextSeq]_vars

\* ------------------------------------------------------------------------
\* Weather cache and rate limit: properties
\* ------------------------------------------------------------------------
\* The stored entry of a key is live: now - fetchedAt < ttl.
EntryLive(k) ==
  /\ weatherCache[k].present
  /\ now - weatherCache[k].timestamp < CacheTTL

\* The provider's budget is used up in a window that has not elapsed.
BudgetExhausted ==
  /\ rateLimit.callCount >= MaxCallsPerWindow
  /\ now - rateLimit.windowStart < WindowMs

\* The call of request r returned the stored value without any fetch.
ServedStored(r, k) ==
  /\ wreq'[r].pc = "returned"
  /\ ~wreq'[r].fresh
  /\ wreq'[r].result = weatherCache[k].data
  /\ weatherCache' = weatherCache

\* The stored entry of a key has expired: now - fetchedAt >= ttl.
EntryExpired(k) ==
  /\ weatherCache[k].present
  /\ now - weatherCache[k].timestamp >= CacheTTL

\* C1 as stated: a call made while the entry of its key is live performs no
\* fetch and returns the stored value; a call made when the entry has expired
\* performs the fetch again.
C1_AsStated ==
  [][\A r \in WReqs, loc \in Locations :
       GetWeatherData(r, loc) =>
         /\ EntryLive(CacheKey(loc)) => ServedStored(r, CacheKey(loc))
         /\ EntryExpired(CacheKey(loc)) => wreq'[r].fresh]_vars

\* C1, amended: a call made while the entry of its key is live performs no
\* fetch and returns the stored value; a call made when the entry has expired
\* performs the fetch again unless the provider's rate-limit budget is
\* exhausted, and then it fails with the rate-limit error without fetching.
C1_CacheWithinTtl ==
  [][\A r \in WReqs, loc \in Locations :
       GetWeatherData(r, loc) =>
         /\ EntryLive(CacheKey(loc)) => ServedStored(r, CacheKey(loc))
         /\ EntryExpired(CacheKey(loc)) =>
              IF BudgetExhausted
                THEN /\ wreq'[r].pc = "threw"
                     /\ wreq'[r].err = "ratelimit"
                     /\ ~wreq'[r].fresh
                ELSE wreq'[r].fresh]_vars

\* A call has just been served from a live entry.
C1_Witness ==
  \E r \in WReqs, k \in Keys :
    /\ wreq[r].pc = "returned" /\ ~wreq[r].fresh
    /\ EntryLive(k) /\ wreq[r].result = weatherCache[k].data
    /\ weatherCache[k].timestamp < now

\* C2: a call served from a live entry leaves the rate-limit state (counter and
\* window start) unchanged and issues no upstream call, also when the counter
\* is at its maximum.
C2_HitLeavesRateLimit ==
  [][\A r \in WReqs, loc \in Locations :
       (GetWeatherData(r, loc) /\ EntryLive(CacheKey(loc))) =>
         /\ rateLimit' = rateLimit
         /\ wreq'[r].pc = "returned"
         /\ ~wreq'[r].fresh]_vars

\* A call was served from the cache while the budget is exhausted.
C2_Witness ==
  \E r \in WReqs :
    /\ wreq[r].pc = "returned" /\ ~wreq[r].fresh
    /\ BudgetExhausted

\* C3: with no live entry and the budget exhausted in an unelapsed window the
\* call fails with the rate-limit error, issues no upstream call and writes no
\* cache entry.
C3_RateLimitRejects ==
  [][\A r \in WReqs, loc \in Locations :
       (GetWeatherData(r, loc) /\ ~EntryLive(CacheKey(loc)) /\ BudgetExhausted) =>
         /\ wreq'[r].pc = "threw"
         /\ wreq'[r].err = "ratelimit"
         /\ ~wreq'[r].fresh
         /\ weatherCache' = weatherCache]_vars

\* A call has been rejected by the rate limit.
C3_Witness ==
  \E r \in WReqs :
    /\ wreq[r].pc = "threw" /\ wreq[r].err = "ratelimit"
    /\ BudgetExhausted

\* The counter counts one more call (in the window current at the time).
CounterIncremented ==
  rateLimit'.callCount =
    (IF now - rateLimit.windowStart >= WindowMs THEN 0 ELSE rateLimit.callCount) + 1

\* C4: every failed upstream fetch (non-success status, or a network failure
\* that makes the fetch throw) increments the provider's call counter, and no
\* cache entry is written.
C4_FailedFetchCounted ==
  [][/\ \A r \in WReqs, o \in {"netfail", "notok"} :
          CurrentResponse(r, o) =>
            CounterIncremented /\ weatherCache' = weatherCache
     /\ \A r \in WReqs, s \in {"netfail", "notok"}, b \in ForecastBodies :
          ForecastResponse(r, s, b) =>
            CounterIncremented /\ weatherCache' = weatherCache]_vars

\* ------------------------------------------------------------------------
\* Barcode resolution and the scan flow: properties
\* ------------------------------------------------------------------------
TierOrder == <<"openfoodfacts", "upcitemdb", "barcodelookup", "cocktaildb">>

\* lookupProductByBarcode has returned to the route of request s.
LookupReturned(s) == sreq[s].info.source # "none"

NoTierUsable(s) == \A i \in 1..Len(sreq[s].log) : ~sreq[s].log[i].usable

\* C5: the tiers are queried strictly in the order openfoodfacts, upcitemdb,
\* barcodelookup, cocktaildb; a tier is queried only after every tier before it
\* missed or failed; the returned source is the first tier with a usable result
\* and no tier after the hit is queried.
C5_TierOrder ==
  \A s \in SReqs :
    LET log == sreq[s].log IN
    /\ Len(log) <= 4
    /\ \A i \in 1..Len(log) : log[i].tier = TierOrder[i]
    /\ \A i \in 1..(Len(log) - 1) : ~log[i].usable
    /\ sreq[s].pc = "lookup" =>
         NoTierUsable(s) /\ sreq[s].tier = Len(log) + 1
    /\ (LookupReturned(s) /\ sreq[s].info.source # "fallback") =>
         /\ Len(log) >= 1
         /\ log[Len(log)].usable
         /\ sreq[s].info.source = TierOrder[Len(log)]

\* A lookup resolved by the third tier after the first two gave nothing.
C5_Witness ==
  \E s \in SReqs :
    /\ LookupReturned(s)
    /\ sreq[s].info.source = "barcodelookup"
    /\ Len(sreq[s].log) = 3
    /\ ~sreq[s].log[1].usable /\ ~sreq[s].log[2].usable

ProductInfos ==
  [name : HitNames, source : {TierOrder[i] : i \in 1..4}] \cup {Fallback}

\* C6: whatever each tier comes to (usable hit, miss, non-success status,
\* network failure, unparsable or mis-shaped JSON) the lookup never raises to
\* its caller and returns a ProductInfo; a failure of tier k is followed by the
\* query of the next tier (or, after the last tier, by the fallback value).
C6_NeverRaises ==
  /\ [](\A s \in SReqs :
          /\ sreq[s].resp.kind # "raised"
          /\ LookupReturned(s) => sreq[s].info \in ProductInfos)
  /\ [][\A s \in SReqs, o \in TierOutcomes :
          (TierResponse(s, o) /\ o.kind # "hit") =>
            IF sreq[s].tier < 3 \/ (sreq[s].tier = 3 /\ Len(sreq[s].barcode) >= 8)
              THEN sreq'[s].pc = "lookup" /\ sreq'[s].tier = sreq[s].tier + 1
              ELSE sreq'[s].info = Fallback]_vars

\* A lookup resolved by the last tier after three tiers gave nothing.
C6_Witness ==
  \E s \in SReqs :
    /\ LookupReturned(s)
    /\ sreq[s].info.source = "cocktaildb"
    /\ Len(sreq[s].log) = 4
    /\ \A i \in 1..3 : ~sreq[s].log[i].usable

\* C7: the lookup returns {name: "Unknown Product", source: "fallback"} exactly
\* when no tier gave a usable result; for a barcode shorter than 8 the fourth
\* tier is not queried.
C7_FallbackIffAllMiss ==
  \A s \in SReqs :
    LookupReturned(s) =>
      /\ (sreq[s].info = Fallback) <=> NoTierUsable(s)
      /\ Len(sreq[s].barcode) < 8 =>
           \A i \in 1..Len(sreq[s].log) : sreq[s].log[i].tier # "cocktaildb"
      /\ (NoTierUsable(s) /\ Len(sreq[s].barcode) >= 8) => Len(sreq[s].log) = 4

\* A short barcode came to the fallback after three tiers.
C7_Witness ==
  \E s \in SReqs :
    /\ sreq[s].info = Fallback
    /\ Len(sreq[s].barcode) < 8
    /\ Len(sreq[s].log) = 3

\* The catalog's products with barcode b.
WithBarcode(b) == {i \in 1..Len(catalog) : catalog[i].barcode = b}

\* Exactly one createProduct call by s, and exactly one product with its
\* barcode, with the placeholder fields.
CreatedOnce(s) ==
  /\ sreq[s].creates = 1
  /\ Cardinality(WithBarcode(sreq[s].barcode)) = 1
  /\ \A i \in WithBarcode(sreq[s].barcode) :
       /\ catalog[i].sku = <<"U", "P", "C", "-">> \o sreq[s].barcode
       /\ catalog[i].unitPrice = "0.00"
       /\ catalog[i].parLevel = 10

\* A scan of a 13-digit barcode, absent from the catalog, resolved by tier 2,
\* has been answered.
ScannedNewViaTier2(s) ==
  /\ sreq[s].pc = "responded"
  /\ sreq[s].route = "scan"
  /\ Len(sreq[s].barcode) = 13
  /\ sreq[s].absent
  /\ sreq[s].info.source = "upcitemdb"

C9_OneCreatePerBarcode ==
  /\ \A b \in Barcodes : createCount[b] <= 1
  /\ \A i, j \in 1..Len(catalog) :
       catalog[i].barcode = catalog[j].barcode => i = j

\* A later scan of a barcode created by an earlier scan found the product.
C9_Witness ==
  \E s \in SReqs :
    /\ sreq[s].pc = "responded"
    /\ sreq[s].resp.kind = "found"
    /\ sreq[s].creates = 0
    /\ sreq[s].absent = FALSE
    /\ createCount[sreq[s].barcode] = 1
    /\ Cardinality(WithBarcode(sreq[s].barcode)) = 1

\* C10: the scan flow reads the catalog by barcode, and possibly writes it,
\* only for a detected 12-13 digit barcode whose resolution is not the
\* fallback; with no pattern detected or the fallback resolution neither
\* getProductByBarcode nor createProduct is called and the catalog is unchanged.
C10_CatalogOnlyOnResolution ==
  /\ [](\A s \in SReqs :
          (sreq[s].gets > 0 \/ sreq[s].creates > 0
             \/ sreq[s].pc \in {"awaitGet", "awaitCreate"}) =>
            /\ sreq[s].route = "scan"
            /\ Len(sreq[s].barcode) \in {12, 13}
            /\ sreq[s].info.source \in {TierOrder[i] : i \in 1..4})
  /\ [][(catalog' # catalog \/ createCount' # createCount) =>
          \E s \in SReqs :
            /\ sreq'[s] # sreq[s]
            /\ sreq[s].route = "scan"
            /\ Len(sreq[s].barcode) \in {12, 13}
            /\ sreq[s].info.source \in {TierOrder[i] : i \in 1..4}]_vars

\* A scan whose resolution was the fallback has been answered without any
\* catalog call.
C10_Witness ==
  \E s \in SReqs :
    /\ sreq[s].pc = "responded"
    /\ sreq[s].route = "scan"
    /\ sreq[s].info = Fallback
    /\ sreq[s].gets = 0 /\ sreq[s].creates = 0

\* ------------------------------------------------------------------------
\* Weather provider without a credential: properties
\* ------------------------------------------------------------------------
\* C20: with no weather credential, a call for a location whose entry is live
\* (a call for it was made within the cache TTL) returns the stored
\* observation and generates no synthetic data; a call made when the entry has
\* expired generates a synthetic observation, stores it with the time of the
\* call and returns it.
C20_DemoCachedWithinTtl ==
  [][\A r \in WReqs, loc \in Locations :
       (GetWeatherData(r, loc) /\ ~apiKey) =>
         /\ EntryLive(CacheKey(loc)) => ServedStored(r, CacheKey(loc))
         /\ EntryExpired(CacheKey(loc)) =>
              /\ wreq'[r].pc = "returned"
              /\ wreq'[r].fresh
              /\ weatherCache'[CacheKey(loc)].present
              /\ weatherCache'[CacheKey(loc)].data = wreq'[r].result
              /\ weatherCache'[CacheKey(loc)].timestamp = now]_vars

\* C20 witness: without a credential, an observation generated after the TTL
\* of the first had elapsed is stored, and a later call within its TTL was
\* served the stored observation.
C20_Witness ==
  /\ ~apiKey
  /\ \E r \in WReqs, k \in Keys :
       /\ wreq[r].pc = "returned" /\ ~wreq[r].fresh
       /\ EntryLive(k) /\ wreq[r].result = weatherCache[k].data
       /\ weatherCache[k].timestamp >= CacheTTL
       /\ weatherCache[k].timestamp < now

\* ------------------------------------------------------------------------
\* Weather provider with a credential: upstream failures and overlap
\* ------------------------------------------------------------------------
\* C22: when the current-conditions response or the forecast response has a
\* non-success status, the call fails with an error and the cache is left as
\* it was.
C22_NonSuccessFails ==
  [][\A r \in WReqs :
       /\ CurrentResponse(r, "notok") =>
            /\ wreq'[r].pc = "threw"
            /\ weatherCache' = weatherCache
       /\ \A body \in ForecastBodies :
            ForecastResponse(r, "notok", body) =>
              /\ wreq'[r].pc = "threw"
              /\ weatherCache' = weatherCache]_vars

\* Another request than r is suspended on an upstream call for key k.
OtherInFlight(r, k) ==
  \E q \in WReqs \ {r} :
    /\ wreq[q].pc \in {"awaitCurrent", "awaitForecast"}
    /\ wreq[q].key = k

\* C23: with a credential, a call for a key without live entry that starts
\* while another call for that key is suspended on its upstream call sees the
\* miss and issues its own fetch (the budget allowing), and every upstream
\* response of either call increments the rate-limit counter: in-flight
\* fetches are not coalesced.
C23_NoCoalescing ==
  [][/\ \A r \in WReqs, loc \in Locations :
          (/\ GetWeatherData(r, loc)
           /\ apiKey
           /\ OtherInFlight(r, CacheKey(loc))
           /\ ~EntryLive(CacheKey(loc))
           /\ ~BudgetExhausted)
            => /\ wreq'[r].pc = "awaitCurrent"
               /\ wreq'[r].key = CacheKey(loc)
     /\ \A r \in WReqs, o \in Observations :
          (CurrentResponse(r, o) /\ OtherInFlight(r, wreq[r].key))
            => CounterIncremented]_vars

\* C23 witness: two calls for the same uncached key are both suspended on
\* their forecast fetch, each having fetched and counted its current
\* conditions.
C23_Witness ==
  \E k \in Keys :
    /\ \A r \in WReqs : wreq[r].pc = "awaitForecast" /\ wreq[r].key = k
    /\ ~weatherCache[k].present
    /\ rateLimit.callCount = 2
    /\ rateLimit.windowStart = 0
    /\ now < WindowMs

\* C26: in every reachable state the provider's call count of the window is
\* at most the maximum of calls per window.
C26_CountWithinBudget == rateLimit.callCount <= MaxCallsPerWindow

\* The entry of key k is expired after the step as well.
StillExpired(k) ==
  /\ weatherCache'[k] = weatherCache[k]
  /\ now' - weatherCache'[k].timestamp >= CacheTTL

\* C27: a call for a key whose entry has expired never returns the stored
\* value; a call that fails leaves the cache as it was; and an expired entry
\* stays expired, served by no call, until a call that fetched (or generated)
\* an observation replaces it.
C27_ExpiredNeverServed ==
  [][/\ \A r \in WReqs, loc \in Locations :
          (GetWeatherData(r, loc) /\ EntryExpired(CacheKey(loc))) =>
            /\ wreq'[r].pc = "returned" => wreq'[r].fresh
            /\ wreq'[r].pc = "threw" => weatherCache' = weatherCache
     /\ \A r \in WReqs :
          (wreq[r].pc # "threw" /\ wreq'[r].pc = "threw")
            => weatherCache' = weatherCache
     /\ \A k \in Keys :
          EntryExpired(k) =>
            \/ StillExpired(k)
            \/ \E r \in WReqs :
                 /\ wreq[r].pc # "returned"
                 /\ wreq'[r].pc = "returned"
                 /\ wreq'[r].fresh
                 /\ weatherCache'[k] = Entry(wreq'[r].result, now)]_vars

\* C27 witness: calls for a key whose entry has expired have failed, one
\* rejected by the rate limit and one on an upstream error, and the entry is
\* still the expired one.
C27_Witness ==
  \E k \in Keys, r, q \in WReqs :
    /\ EntryExpired(k)
    /\ wreq[r].pc = "threw" /\ wreq[r].key = k /\ wreq[r].err = "ratelimit"
    /\ wreq[q].pc = "threw" /\ wreq[q].key = k /\ wreq[q].err = "api"

\* ------------------------------------------------------------------------
\* Demand forecast: calculateDemandForecast (server/weather.ts)
\* ------------------------------------------------------------------------

\* Temperatures are whole degrees Fahrenheit, below and above every threshold
\* of the rules (45, 50, 60, 75), negative ones included.
MaxTemp == 90
Temps == (0 - MaxTemp)..MaxTemp
Conditions == {"Clear", "Clouds", "Rain", "Thunderstorm"}
WeatherDatas == [temperature : Temps, condition : Conditions]

\* A DemandForecast.  demandMultiplier is held in hundredths (1.4 is 140,
\* 1.15 is 115); reasoning is the rule's text, one per rule.
Forecast(category, multiplier, reasoning) ==
  [productCategory |-> category, demandMultiplier |-> multiplier,
   reasoning |-> reasoning]

\* Variant: every temperature below 60 takes the cold-weather branch.
BeerRuleNoGap(temp) ==
  IF temp >= 60
    THEN <<Forecast("Beer", IF temp >= 75 THEN 140 ELSE 120, "warm-beer")>>
    ELSE <<Forecast("Beer", 80, "cold-beer")>>

\* if (temp >= 60) push Beer (temp >= 75 ? 1.4 : 1.2)
\* else if (temp <= 50) push Beer 0.8
BeerRule(temp) ==
  IF temp >= 60
    THEN <<Forecast("Beer", IF temp >= 75 THEN 140 ELSE 120, "warm-beer")>>
    ELSE IF temp <= 50
      THEN <<Forecast("Beer", 80, "cold-beer")>>
      ELSE <<>>

\* if (temp <= 60 || condition === "Rain") push Wine 1.2
WineRule(temp, condition) ==
  IF temp <= 60 \/ condition = "Rain"
    THEN <<Forecast("Wine", 120, "cool-wine")>>
    ELSE <<>>

\* if (temp <= 45) push Spirits 1.3
SpiritsRule(temp) ==
  IF temp <= 45 THEN <<Forecast("Spirits", 130, "cold-spirits")>> ELSE <<>>

\* Variant: only rain, not a thunderstorm, raises all categories.
RainRuleRainOnly(condition) ==
  IF condition = "Rain"
    THEN <<Forecast("All Categories", 115, "rainy")>>
    ELSE <<>>

\* if (condition === "Rain" || condition === "Thunderstorm")
\*   push "All Categories" 1.15
RainRule(condition) ==
  IF condition = "Rain" \/ condition = "Thunderstorm"
    THEN <<Forecast("All Categories", 115, "rainy")>>
    ELSE <<>>

\* Variant: the rainy day logic runs first.
CalculateDemandForecastRainFirst(weatherData) ==
  RainRule(weatherData.condition)
    \o BeerRule(weatherData.temperature)
    \o WineRule(weatherData.temperature, weatherData.condition)
    \o SpiritsRule(weatherData.temperature)

\* The forecasts array in the order of its pushes.
CalculateDemandForecast(weatherData) ==
  BeerRule(weatherData.temperature)
    \o WineRule(weatherData.temperature, weatherData.condition)
    \o SpiritsRule(weatherData.temperature)
    \o RainRule(weatherData.condition)

\* calculateDemandForecast runs on the observation it was called with and
\* returns.
CalculateForecast ==
  /\ pure.fn = "calculateDemandForecast"
  /\ pure.pc = "called"
  /\ pure' = [fn |-> "calculateDemandForecast", pc |-> "returned",
              weatherData |-> pure.weatherData,
              forecasts |-> CalculateDemandForecast(pure.weatherData)]
  /\ UNCHANGED <<wvars, svars>>

\* The caller has taken the return value.
PureReturn ==
  /\ pure.pc = "returned"
  /\ pure' = NoCall
  /\ UNCHANGED <<wvars, svars>>

\* calculateDemandForecast has been called with an observation; no request
\* of any route in progress.
InitForecast ==
  /\ pure \in {[fn |-> "calculateDemandForecast", pc |-> "called",
                 weatherData |-> w] : w \in WeatherDatas}
  /\ now = 0
  /\ apiKey = FALSE
  /\ weatherCache = [k \in Keys |-> NoEntry]
  /\ rateLimit = [windowStart |-> 0, callCount |-> 0]
  /\ wreq = [r \in WReqs |-> WIdle]
  /\ visionKey = FALSE
  /\ catalog = <<>>
  /\ createCount = [b \in Barcodes |-> 0]
  /\ sreq = [s \in SReqs |-> SIdle]

FNext ==
  \/ CalculateForecast
  \/ PureReturn

SpecForecast == InitForecast /\ [][FNext]_vars

\* The multipliers of the forecasts of one category, in output order.
MultipliersOf(forecasts, category) ==
  LET sel == SelectSeq(forecasts, LAMBDA f : f.productCategory = category)
  IN  [i \in 1..Len(sel) |-> sel[i].demandMultiplier]

ForecastReturned ==
  pure.fn = "calculateDemandForecast" /\ pure.pc = "returned"

\* C11: for every integer temperature the output holds a Beer forecast with
\* multiplier 1.4 when temp >= 75, 1.2 when 60 <= temp < 75, 0.8 when
\* temp <= 50, none when 50 < temp < 60, and never more than one.
C11_BeerMultiplier ==
  ForecastReturned =>
    LET temp == pure.weatherData.temperature
        beer == MultipliersOf(pure.forecasts, "Beer")
    IN  /\ Len(beer) <= 1
        /\ temp >= 75 => beer = <<140>>
        /\ (60 <= temp /\ temp < 75) => beer = <<120>>
        /\ temp <= 50 => beer = <<80>>
        /\ (50 < temp /\ temp < 60) => beer = <<>>

\* C11 witness: a temperature in the gap between 50 and 60 was forecast and
\* the output, not empty, holds no Beer forecast.
C11_Witness ==
  /\ ForecastReturned
  /\ pure.weatherData.temperature = 55
  /\ pure.forecasts # <<>>
  /\ MultipliersOf(pure.forecasts, "Beer") = <<>>

\* C12: the output holds a Wine forecast (1.2) iff temp <= 60 or the
\* condition is Rain, a Spirits forecast (1.3) iff temp <= 45, an All
\* Categories forecast (1.15) iff the condition is Rain or Thunderstorm; each
\* is an entry of its own with its table multiplier whatever else fires.
C12_WineSpiritsRain ==
  ForecastReturned =>
    LET temp == pure.weatherData.temperature
        condition == pure.weatherData.condition
        wine == MultipliersOf(pure.forecasts, "Wine")
        spirits == MultipliersOf(pure.forecasts, "Spirits")
        rain == MultipliersOf(pure.forecasts, "All Categories")
        beer == MultipliersOf(pure.forecasts, "Beer")
    IN  /\ wine = IF temp <= 60 \/ condition = "Rain" THEN <<120>> ELSE <<>>
        /\ spirits = IF temp <= 45 THEN <<130>> ELSE <<>>
        /\ rain = IF condition \in {"Rain", "Thunderstorm"}
                    THEN <<115>> ELSE <<>>
        /\ Len(pure.forecasts) = Len(beer) + Len(wine) + Len(spirits) + Len(rain)

\* C12 witness: a cold thunderstorm fires the Beer, Wine, Spirits and All
\* Categories rules together and the output holds the four entries.
C12_Witness ==
  /\ ForecastReturned
  /\ pure.weatherData.condition = "Thunderstorm"
  /\ pure.weatherData.temperature <= 45
  /\ Len(pure.forecasts) = 4


\* ------------------------------------------------------------------------
\* Reorder suggestions: generateWeatherBasedReorders (server/weather.ts)
\* ------------------------------------------------------------------------

\* String.prototype.toLowerCase on a text held as its sequence of characters.
LowerOfUpper ==
  [c \in {UpperLetters[i] : i \in 1..26} |->
     LowerLetters[CHOOSE i \in 1..26 : c = UpperLetters[i]]]
LowerChar(c) == IF c \in DOMAIN LowerOfUpper THEN LowerOfUpper[c] ELSE c
LowerCase(t) == [i \in 1..Len(t) |-> LowerChar(t[i])]

\* String.prototype.includes.
Includes(t, w) ==
  \E i \in 1..(Len(t) - Len(w) + 1) : SubSeq(t, i, i + Len(w) - 1) = w

\* A nullable integer column that holds no value.
Null == -1

\* Falsy values of a nullable integer column: null and 0.
Falsy(v) == v = Null \/ v = 0

\* Rows of the products table: of the beer category with a count and a par
\* level; without category, count and with par level 0, named after a beer
\* brand; of the wine category with a recorded count of 0.
ProductKinds ==
  { [name |-> <<"C", "o", "r", "o", "n", "a">>, categoryId |-> 1,
     lastCountQuantity |-> 6, parLevel |-> 8],
    [name |-> <<"B", "u", "d", "w", "e", "i", "s", "e", "r">>,
     categoryId |-> Null, lastCountQuantity |-> Null, parLevel |-> 0],
    [name |-> <<"M", "e", "r", "l", "o", "t">>, categoryId |-> 2,
     lastCountQuantity |-> 0, parLevel |-> 24] }

\* storage.getAllProducts(): up to MaxInventory rows, the id of a row its
\* position.
MaxInventory == 6
Inventories ==
  UNION { { [i \in 1..n |-> [id |-> i, name |-> ks[i].name,
                             categoryId |-> ks[i].categoryId,
                             lastCountQuantity |-> ks[i].lastCountQuantity,
                             parLevel |-> ks[i].parLevel]] :
            ks \in [1..n -> ProductKinds] } : n \in 0..MaxInventory }

\* Values of Math.floor(Math.random() * 25 + 15) and of
\* Math.floor(Math.random() * 40 + 30): the ends of their ranges.  A call
\* draws one value of each kind.
RandomStocks == {15, 39}
RandomPars == {30, 69}
Randoms == [stock : RandomStocks, par : RandomPars]

\* The forecast lists the weather-forecast route passes on.
ForecastLists == {CalculateDemandForecast(w) : w \in WeatherDatas}

\* categoryMap
CategoryMap(category) ==
  CASE category = "Beer" -> 1
    [] category = "Wine" -> 2
    [] category = "Spirits" -> 3

\* currentInventory.filter(...) by the forecast's category.
ExactMatches(forecast, currentInventory) ==
  SelectSeq(currentInventory,
            LAMBDA product :
              \/ forecast.productCategory = "All Categories"
              \/ product.categoryId = CategoryMap(forecast.productCategory))

BeerKeywords ==
  { <<"b", "e", "e", "r">>,
    <<"b", "u", "d", "w", "e", "i", "s", "e", "r">>,
    <<"s", "t", "e", "l", "l", "a">>,
    <<"h", "e", "i", "n", "e", "k", "e", "n">> }

\* currentInventory.filter(...) by the beer keywords in the lower-cased name.
NameMatches(currentInventory) ==
  SelectSeq(currentInventory,
            LAMBDA product :
              \E w \in BeerKeywords : Includes(LowerCase(product.name), w))

\* Array.prototype.slice(0, n)
Slice(s, n) == SubSeq(s, 1, IF Len(s) < n THEN Len(s) ELSE n)

\* Variant: the name match is tried for a forecast of any category.
CategoryProductsAnyCategory(forecast, currentInventory) ==
  LET exact == ExactMatches(forecast, currentInventory)
      named == IF exact = <<>> THEN NameMatches(currentInventory) ELSE exact
  IN  IF named = <<>> THEN Slice(currentInventory, 3) ELSE named

\* categoryProducts as the inner loop finds it: the category's products; for
\* Beer without any, the products named after a beer; without any, the first 3.
CategoryProducts(forecast, currentInventory) ==
  LET exact == ExactMatches(forecast, currentInventory)
      named == IF exact = <<>> /\ forecast.productCategory = "Beer"
                 THEN NameMatches(currentInventory)
                 ELSE exact
  IN  IF named = <<>> THEN Slice(currentInventory, 3) ELSE named

\* Variant: the product is truncated, not rounded.
RoundDown(hundredths) == hundredths \div 100

\* Math.round of a non-negative number held in hundredths.  For the par
\* levels and multipliers here the double product rounds to the same integer.
Round(hundredths) == (hundredths + 50) \div 100

\* product.lastCountQuantity || Math.floor(Math.random() * 25 + 15)
CurrentStock(product, rnd) ==
  IF Falsy(product.lastCountQuantity) THEN rnd.stock
  ELSE product.lastCountQuantity

\* product.parLevel || Math.floor(Math.random() * 40 + 30)
ParLevel(product, rnd) ==
  IF Falsy(product.parLevel) THEN rnd.par ELSE product.parLevel

\* Math.round(parLevel * forecast.demandMultiplier)
AdjustedParLevel(forecast, product, rnd) ==
  Round(ParLevel(product, rnd) * forecast.demandMultiplier)

\* Variant: a multiplier of 1.3 counts as high.
PriorityFromThirty(multiplier) ==
  IF multiplier >= 130 THEN "High" ELSE "Medium"

\* forecast.demandMultiplier > 1.3 ? "High" : "Medium"
Priority(multiplier) == IF multiplier > 130 THEN "High" ELSE "Medium"

\* Variant: a product at its adjusted par level is suggested too.
SuggestionAtPar(forecast, product, rnd) ==
  LET currentStock == CurrentStock(product, rnd)
      adjustedParLevel == AdjustedParLevel(forecast, product, rnd)
  IN  IF currentStock <= adjustedParLevel
        THEN <<[productId |-> product.id, productName |-> product.name,
                currentStock |-> currentStock,
                normalParLevel |-> ParLevel(product, rnd),
                weatherAdjustedParLevel |-> adjustedParLevel,
                suggestedOrderQuantity |-> adjustedParLevel - currentStock,
                reasoning |-> forecast.reasoning,
                priority |-> Priority(forecast.demandMultiplier)]>>
        ELSE <<>>

\* The body of the inner loop: what it pushes for one product.
Suggestion(forecast, product, rnd) ==
  LET currentStock == CurrentStock(product, rnd)
      adjustedParLevel == AdjustedParLevel(forecast, product, rnd)
  IN  IF currentStock < adjustedParLevel
        THEN <<[productId |-> product.id, productName |-> product.name,
                currentStock |-> currentStock,
                normalParLevel |-> ParLevel(product, rnd),
                weatherAdjustedParLevel |-> adjustedParLevel,
                suggestedOrderQuantity |-> adjustedParLevel - currentStock,
                reasoning |-> forecast.reasoning,
                priority |-> Priority(forecast.demandMultiplier)]>>
        ELSE <<>>

\* for (const product of categoryProducts.slice(0, 5)) { ... }: the pushes of
\* one forecast, in order.
RECURSIVE InnerLoop(_, _, _)
InnerLoop(forecast, products, rnd) ==
  IF products = <<>> THEN <<>>
  ELSE Suggestion(forecast, Head(products), rnd)
         \o InnerLoop(forecast, Tail(products), rnd)

\* for (const forecast of forecasts) { ... }: reorderSuggestions before the
\* sort.
RECURSIVE OuterLoop(_, _, _)
OuterLoop(forecasts, currentInventory, rnd) ==
  IF forecasts = <<>> THEN <<>>
  ELSE InnerLoop(Head(forecasts),
                 Slice(CategoryProducts(Head(forecasts), currentInventory), 5),
                 rnd)
         \o OuterLoop(Tail(forecasts), currentInventory, rnd)

\* x put into a list sorted by decreasing suggestedOrderQuantity, ahead of the
\* entries that do not exceed it.
RECURSIVE InsertSorted(_, _)
InsertSorted(x, sorted) ==
  IF sorted = <<>> THEN <<x>>
  ELSE IF Head(sorted).suggestedOrderQuantity <= x.suggestedOrderQuantity
    THEN <<x>> \o sorted
    ELSE <<Head(sorted)>> \o InsertSorted(x, Tail(sorted))

\* Variant: the suggestions are returned in the order of their pushes.
RECURSIVE SortUnsorted(_)
SortUnsorted(suggestions) == suggestions

\* reorderSuggestions.sort((a, b) => b.suggestedOrderQuantity -
\* a.suggestedOrderQuantity): a stable sort.
RECURSIVE Sort(_)
Sort(suggestions) ==
  IF suggestions = <<>> THEN <<>>
  ELSE InsertSorted(Head(suggestions), Sort(Tail(suggestions)))

GenerateWeatherBasedReorders(forecasts, currentInventory, rnd) ==
  Sort(OuterLoop(forecasts, currentInventory, rnd))

\* The ids of a list of products.
Ids(products) == [i \in 1..Len(products) |-> products[i].id]

\* generateWeatherBasedReorders runs on the forecasts and the inventory it
\* was called with and returns; categoryProducts holds, forecast by forecast,
\* the ids of the products the inner loop was given before the slice.
GenerateReorders ==
  /\ pure.fn = "generateWeatherBasedReorders"
  /\ pure.pc = "called"
  /\ pure' = [fn |-> "generateWeatherBasedReorders", pc |-> "returned",
              forecasts |-> pure.forecasts,
              currentInventory |-> pure.currentInventory,
              rnd |-> pure.rnd,
              categoryProducts |->
                [i \in 1..Len(pure.forecasts) |->
                   Ids(CategoryProducts(pure.forecasts[i],
                                        pure.currentInventory))],
              suggestions |->
                GenerateWeatherBasedReorders(pure.forecasts,
                                             pure.currentInventory, pure.rnd)]
  /\ UNCHANGED <<wvars, svars>>

\* generateWeatherBasedReorders has been called with the forecasts of some
\* observation, an inventory and the values its random draws will give; no
\* request of any route in progress.
InitReorder ==
  /\ pure \in {[fn |-> "generateWeatherBasedReorders", pc |-> "called",
                forecasts |-> f, currentInventory |-> inv, rnd |-> rnd] :
               f \in ForecastLists, inv \in Inventories, rnd \in Randoms}
  /\ now = 0
  /\ apiKey = FALSE
  /\ weatherCache = [k \in Keys |-> NoEntry]
  /\ rateLimit = [windowStart |-> 0, callCount |-> 0]
  /\ wreq = [r \in WReqs |-> WIdle]
  /\ visionKey = FALSE
  /\ catalog = <<>>
  /\ createCount = [b \in Barcodes |-> 0]
  /\ sreq = [s \in SReqs |-> SIdle]

RNext ==
  \/ GenerateReorders
  \/ PureReturn

SpecReorder == InitReorder /\ [][RNext]_vars

ReordersReturned ==
  pure.fn = "generateWeatherBasedReorders" /\ pure.pc = "returned"

\* C13: every suggestion returned has suggestedOrderQuantity > 0, whatever
\* the forecasts and the inventory, products without or with zero
\* lastCountQuantity or parLevel included.
C13_PositiveQuantity ==
  ReordersReturned =>
    \A i \in 1..Len(pure.suggestions) :
      pure.suggestions[i].suggestedOrderQuantity > 0

\* C13 witness: suggestions were returned for a product without a count and
\* with par level 0 and for a product with a count of 0.
C13_Witness ==
  /\ ReordersReturned
  /\ \E i, j \in 1..Len(pure.suggestions) :
       LET p == pure.currentInventory[pure.suggestions[i].productId]
           q == pure.currentInventory[pure.suggestions[j].productId]
       IN  /\ p.lastCountQuantity = Null
           /\ p.parLevel = 0
           /\ q.lastCountQuantity = 0

\* C14: the returned list is ordered non-increasing by
\* suggestedOrderQuantity across all forecasts.
C14_SortedAcrossForecasts ==
  ReordersReturned =>
    \A i, j \in 1..Len(pure.suggestions) :
      i < j => pure.suggestions[i].suggestedOrderQuantity
                 >= pure.suggestions[j].suggestedOrderQuantity

\* C14 witness: the list returned starts with a suggestion of a later
\* forecast than the one its second suggestion comes from, with unequal
\* quantities.
C14_Witness ==
  /\ ReordersReturned
  /\ Len(pure.suggestions) >= 2
  /\ pure.suggestions[1].suggestedOrderQuantity
       > pure.suggestions[2].suggestedOrderQuantity
  /\ \E f, g \in 1..Len(pure.forecasts) :
       /\ f < g
       /\ pure.suggestions[1].reasoning = pure.forecasts[g].reasoning
       /\ pure.suggestions[2].reasoning = pure.forecasts[f].reasoning


\* The c-th candidate product of the f-th forecast.
Candidate(f, c) == pure.currentInventory[pure.categoryProducts[f][c]]

\* The forecast a suggestion derives from: the one whose reasoning it carries.
ForecastOf(suggestion) ==
  CHOOSE f \in {pure.forecasts[i] : i \in 1..Len(pure.forecasts)} :
    f.reasoning = suggestion.reasoning

\* The returned list holds a suggestion for the product from the forecast.
Yields(forecast, product) ==
  \E i \in 1..Len(pure.suggestions) :
    /\ pure.suggestions[i].productId = product.id
    /\ pure.suggestions[i].reasoning = forecast.reasoning

\* n is the integer nearest to hundredths / 100, halves going up.
IsRounded(n, hundredths) ==
  /\ 100 * n <= hundredths + 50
  /\ hundredths + 50 < 100 * (n + 1)

\* Each suggestion's adjusted par level is its par level times its forecast's
\* multiplier, rounded, and its quantity what the stock is short of that.
SuggestionArithmetic ==
  \A i \in 1..Len(pure.suggestions) :
    LET sg == pure.suggestions[i] IN
    /\ IsRounded(sg.weatherAdjustedParLevel,
                 sg.normalParLevel * ForecastOf(sg).demandMultiplier)
    /\ sg.suggestedOrderQuantity = sg.weatherAdjustedParLevel - sg.currentStock

\* The product's stock is below its par level adjusted by the forecast: the
\* next integer above the stock is at most the rounded product.
BelowAdjustedPar(forecast, product) ==
  LET stock == IF product.lastCountQuantity \in {Null, 0}
                 THEN pure.rnd.stock ELSE product.lastCountQuantity
      par == IF product.parLevel \in {Null, 0}
               THEN pure.rnd.par ELSE product.parLevel
  IN  100 * (stock + 1) <= par * forecast.demandMultiplier + 50

\* C15 as stated: the arithmetic holds and every candidate product of a
\* forecast yields a suggestion iff its stock is below its adjusted par level.
C15_AsStated ==
  ReordersReturned =>
    /\ SuggestionArithmetic
    /\ \A f \in 1..Len(pure.forecasts) :
         \A c \in 1..Len(pure.categoryProducts[f]) :
           Yields(pure.forecasts[f], Candidate(f, c))
             <=> BelowAdjustedPar(pure.forecasts[f], Candidate(f, c))

\* C15: the arithmetic holds; each of the first 5 candidate products of a
\* forecast yields a suggestion iff its stock is below its adjusted par level,
\* and a candidate after the fifth yields none.
C15_FirstFiveCandidates ==
  ReordersReturned =>
    /\ SuggestionArithmetic
    /\ \A f \in 1..Len(pure.forecasts) :
         \A c \in 1..Len(pure.categoryProducts[f]) :
           Yields(pure.forecasts[f], Candidate(f, c))
             <=> /\ c <= 5
                 /\ BelowAdjustedPar(pure.forecasts[f], Candidate(f, c))

\* C15 witness: a forecast had six candidates, the first yielded a suggestion
\* and the sixth has its stock below its adjusted par level.
C15_Witness ==
  /\ ReordersReturned
  /\ \E f \in 1..Len(pure.forecasts) :
       /\ Len(pure.categoryProducts[f]) >= 6
       /\ Yields(pure.forecasts[f], Candidate(f, 1))
       /\ BelowAdjustedPar(pure.forecasts[f], Candidate(f, 6))

\* C16: a suggestion has priority High iff the multiplier of its forecast is
\* strictly greater than 1.3, and Medium otherwise.
C16_PriorityHighAboveThirty ==
  ReordersReturned =>
    \A i \in 1..Len(pure.suggestions) :
      pure.suggestions[i].priority =
        IF ForecastOf(pure.suggestions[i]).demandMultiplier > 130
          THEN "High" ELSE "Medium"

\* C16 witness: a suggestion derived from a forecast with multiplier exactly
\* 1.3 was returned with priority Medium.
C16_Witness ==
  /\ ReordersReturned
  /\ \E i \in 1..Len(pure.suggestions) :
       /\ ForecastOf(pure.suggestions[i]).demandMultiplier = 130
       /\ pure.suggestions[i].priority = "Medium"

\* No product of the inventory has the category id of the forecast.
NoExactMatch(forecast) ==
  LET id == CASE forecast.productCategory = "Beer" -> 1
              [] forecast.productCategory = "Wine" -> 2
              [] forecast.productCategory = "Spirits" -> 3
  IN  \A i \in 1..Len(pure.currentInventory) :
        pure.currentInventory[i].categoryId # id

\* The keyword-named products if any, the first 3 inventory items if none.
NameThenFirstThree ==
  IF NameMatches(pure.currentInventory) # <<>>
    THEN NameMatches(pure.currentInventory)
    ELSE Slice(pure.currentInventory, 3)

\* C17 as stated: for a Beer, Wine or Spirits forecast without a product of
\* its category id the candidates are the keyword-named products, and the
\* first 3 inventory items only if there is none.
C17_AsStated ==
  ReordersReturned =>
    \A f \in 1..Len(pure.forecasts) :
      (/\ pure.forecasts[f].productCategory \in {"Beer", "Wine", "Spirits"}
       /\ NoExactMatch(pure.forecasts[f]))
        => pure.categoryProducts[f] = Ids(NameThenFirstThree)

\* C17: for a Beer forecast without a product of its category id the
\* candidates are the keyword-named products, and the first 3 inventory items
\* only if there is none; for a Wine or Spirits forecast without a product of
\* its category id they are the first 3 inventory items.
C17_NameMatchForBeerOnly ==
  ReordersReturned =>
    \A f \in 1..Len(pure.forecasts) :
      (/\ pure.forecasts[f].productCategory \in {"Beer", "Wine", "Spirits"}
       /\ NoExactMatch(pure.forecasts[f]))
        => pure.categoryProducts[f] =
             IF pure.forecasts[f].productCategory = "Beer"
               THEN Ids(NameThenFirstThree)
               ELSE Ids(Slice(pure.currentInventory, 3))

\* C17 witness: with no beer and no wine product in an inventory of more than
\* 3 products, a keyword-named one after the third, the Beer forecast got the
\* keyword-named products and the Wine forecast the first 3.
C17_Witness ==
  /\ ReordersReturned
  /\ Len(pure.currentInventory) > 3
  /\ NameMatches(pure.currentInventory) # <<>>
  /\ NameMatches(pure.currentInventory) # Slice(pure.currentInventory, 3)
  /\ \E f, g \in 1..Len(pure.forecasts) :
       /\ pure.forecasts[f].productCategory = "Beer"
       /\ NoExactMatch(pure.forecasts[f])
       /\ pure.categoryProducts[f] = Ids(NameMatches(pure.currentInventory))
       /\ pure.forecasts[g].productCategory = "Wine"
       /\ NoExactMatch(pure.forecasts[g])
       /\ pure.categoryProducts[g] = Ids(Slice(pure.currentInventory, 3))


\* ------------------------------------------------------------------------
\* Spoken quantities: extractQuantityFromText (server/routes.ts)
\* ------------------------------------------------------------------------

\* Variant: the dictionary in the opposite order.
NumberWordsDescending ==
  <<
     [word |-> <<"t", "w", "e", "n", "t", "y">>,
      value |-> 20],
     [word |-> <<"n", "i", "n", "e", "t", "e", "e", "n">>,
      value |-> 19],
     [word |-> <<"e", "i", "g", "h", "t", "e", "e", "n">>,
      value |-> 18],
     [word |-> <<"s", "e", "v", "e", "n", "t", "e", "e", "n">>,
      value |-> 17],
     [word |-> <<"s", "i", "x", "t", "e", "e", "n">>,
      value |-> 16],
     [word |-> <<"f", "i", "f", "t", "e", "e", "n">>,
      value |-> 15],
     [word |-> <<"f", "o", "u", "r", "t", "e", "e", "n">>,
      value |-> 14],
     [word |-> <<"t", "h", "i", "r", "t", "e", "e", "n">>,
      value |-> 13],
     [word |-> <<"t", "w", "e", "l", "v", "e">>,
      value |-> 12],
     [word |-> <<"e", "l", "e", "v", "e", "n">>,
      value |-> 11],
     [word |-> <<"t", "e", "n">>,
      value |-> 10],
     [word |-> <<"n", "i", "n", "e">>,
      value |-> 9],
     [word |-> <<"e", "i", "g", "h", "t">>,
      value |-> 8],
     [word |-> <<"s", "e", "v", "e", "n">>,
      value |-> 7],
     [word |-> <<"s", "i", "x">>,
      value |-> 6],
     [word |-> <<"f", "i", "v", "e">>,
      value |-> 5],
     [word |-> <<"f", "o", "u", "r">>,
      value |-> 4],
     [word |-> <<"t", "h", "r", "e", "e">>,
      value |-> 3],
     [word |-> <<"t", "w", "o">>,
      value |-> 2],
     [word |-> <<"o", "n", "e">>,
      value |-> 1],
     [word |-> <<"z", "e", "r", "o">>,
      value |-> 0] >>

\* numberWords, in the order Object.entries gives: the order of the literal.
NumberWords ==
  <<
     [word |-> <<"z", "e", "r", "o">>,
      value |-> 0],
     [word |-> <<"o", "n", "e">>,
      value |-> 1],
     [word |-> <<"t", "w", "o">>,
      value |-> 2],
     [word |-> <<"t", "h", "r", "e", "e">>,
      value |-> 3],
     [word |-> <<"f", "o", "u", "r">>,
      value |-> 4],
     [word |-> <<"f", "i", "v", "e">>,
      value |-> 5],
     [word |-> <<"s", "i", "x">>,
      value |-> 6],
     [word |-> <<"s", "e", "v", "e", "n">>,
      value |-> 7],
     [word |-> <<"e", "i", "g", "h", "t">>,
      value |-> 8],
     [word |-> <<"n", "i", "n", "e">>,
      value |-> 9],
     [word |-> <<"t", "e", "n">>,
      value |-> 10],
     [word |-> <<"e", "l", "e", "v", "e", "n">>,
      value |-> 11],
     [word |-> <<"t", "w", "e", "l", "v", "e">>,
      value |-> 12],
     [word |-> <<"t", "h", "i", "r", "t", "e", "e", "n">>,
      value |-> 13],
     [word |-> <<"f", "o", "u", "r", "t", "e", "e", "n">>,
      value |-> 14],
     [word |-> <<"f", "i", "f", "t", "e", "e", "n">>,
      value |-> 15],
     [word |-> <<"s", "i", "x", "t", "e", "e", "n">>,
      value |-> 16],
     [word |-> <<"s", "e", "v", "e", "n", "t", "e", "e", "n">>,
      value |-> 17],
     [word |-> <<"e", "i", "g", "h", "t", "e", "e", "n">>,
      value |-> 18],
     [word |-> <<"n", "i", "n", "e", "t", "e", "e", "n">>,
      value |-> 19],
     [word |-> <<"t", "w", "e", "n", "t", "y">>,
      value |-> 20] >>

\* Words a transcript is made of: digit runs (one with leading zeros), digits
\* glued to a letter, digits before a hyphen, number words in either case or
\* inside another word, a word that is no number.
Tokens ==
  { <<"1", "2">>,
    <<"0", "0", "7">>,
    <<"a", "1", "2">>,
    <<"S", "e", "v", "e", "n">>,
    <<"n", "i", "n", "e", "t", "e", "e", "n">>,
    <<"s", "t", "o", "n", "e">>,
    <<"n", "o">>,
    <<"4", "-", "p", "a", "c", "k">> }

\* Transcripts: up to MaxWords words with single spaces between them.
MaxWords == 3
RECURSIVE Join(_)
Join(ws) ==
  IF ws = <<>> THEN <<>>
  ELSE IF Len(ws) = 1 THEN Head(ws)
  ELSE Head(ws) \o <<" ">> \o Join(Tail(ws))
Texts == UNION { {Join(ws) : ws \in [1..n -> Tokens]} : n \in 0..MaxWords }

\* The end of the longest run of digits of t that starts at position i.
RECURSIVE RunEnd(_, _)
RunEnd(t, i) ==
  IF i < Len(t) /\ IsDigit(t[i + 1]) THEN RunEnd(t, i + 1) ELSE i

\* Variant: the pattern without its word boundaries, /(\d+)/.
MatchAtUnbounded(t, i) == IsDigit(t[i])

\* /\b(\d+)\b/ matches t at position i: a shorter run than the longest one
\* ends between two digits, where there is no boundary.
MatchAt(t, i) ==
  /\ IsDigit(t[i])
  /\ BoundaryAt(t, i)
  /\ BoundaryAt(t, RunEnd(t, i) + 1)

\* lowerText.match(/\b(\d+)\b/): group 1 of the first match, <<>> for null.
NumberMatch(t) ==
  LET starts == {i \in 1..Len(t) : MatchAt(t, i)} IN
  IF starts = {} THEN <<>>
  ELSE LET i == CHOOSE x \in starts : \A y \in starts : x <= y
       IN  SubSeq(t, i, RunEnd(t, i))

DecimalDigits == <<"0", "1", "2", "3", "4", "5", "6", "7", "8", "9">>
DigitValue(c) == (CHOOSE d \in 1..10 : DecimalDigits[d] = c) - 1

\* parseInt of a run of decimal digits.
RECURSIVE ParseInt(_)
ParseInt(digits) ==
  IF digits = <<>> THEN 0
  ELSE 10 * ParseInt(SubSeq(digits, 1, Len(digits) - 1))
         + DigitValue(digits[Len(digits)])

\* for (const [word, value] of Object.entries(numberWords)) from entry k on:
\* the value of the first word lowerText includes, 0 after the last entry.
RECURSIVE WordLoop(_, _)
WordLoop(lowerText, k) ==
  IF k > Len(NumberWords) THEN 0
  ELSE IF Includes(lowerText, NumberWords[k].word) THEN NumberWords[k].value
  ELSE WordLoop(lowerText, k + 1)

ExtractQuantityFromText(text) ==
  IF text = <<>> THEN 0
  ELSE LET lowerText == LowerCase(text)
           numberMatch == NumberMatch(lowerText)
       IN  IF numberMatch # <<>> THEN ParseInt(numberMatch)
           ELSE WordLoop(lowerText, 1)

\* extractQuantityFromText runs on the text it was called with and returns.
ExtractQuantity ==
  /\ pure.fn = "extractQuantityFromText"
  /\ pure.pc = "called"
  /\ pure' = [fn |-> "extractQuantityFromText", pc |-> "returned",
              text |-> pure.text,
              result |-> ExtractQuantityFromText(pure.text)]
  /\ UNCHANGED <<wvars, svars>>

\* extractQuantityFromText has been called with a transcript; no request of
\* any route in progress.
InitExtract ==
  /\ pure \in {[fn |-> "extractQuantityFromText", pc |-> "called",
                text |-> t] : t \in Texts}
  /\ now = 0
  /\ apiKey = FALSE
  /\ weatherCache = [k \in Keys |-> NoEntry]
  /\ rateLimit = [windowStart |-> 0, callCount |-> 0]
  /\ wreq = [r \in WReqs |-> WIdle]
  /\ visionKey = FALSE
  /\ catalog = <<>>
  /\ createCount = [b \in Barcodes |-> 0]
  /\ sreq = [s \in SReqs |-> SIdle]

XNext ==
  \/ ExtractQuantity
  \/ PureReturn

SpecExtract == InitExtract /\ [][XNext]_vars

QuantityReturned ==
  pure.fn = "extractQuantityFromText" /\ pure.pc = "returned"

\* Positions i..j of t hold a standalone run of decimal digits: digits only,
\* no word character next to it on either side.
StandaloneRun(t, i, j) ==
  /\ i <= j
  /\ \A k \in i..j : t[k] \in {"0", "1", "2", "3", "4", "5", "6", "7", "8", "9"}
  /\ i = 1 \/ ~IsWordChar(t[i - 1])
  /\ j = Len(t) \/ ~IsWordChar(t[j + 1])

HasStandaloneRun(t) ==
  \E i, j \in 1..Len(t) : StandaloneRun(t, i, j)

\* n is the number the digits at positions i..j of t write in base ten.
RECURSIVE TenTo(_)
TenTo(e) == IF e = 0 THEN 1 ELSE 10 * TenTo(e - 1)
RECURSIVE SumDigits(_, _, _)
SumDigits(t, i, j) ==
  IF i > j THEN 0
  ELSE DigitValue(t[i]) * TenTo(j - i) + SumDigits(t, i + 1, j)

\* The dictionary entries whose word is a substring of t.
EntriesIn(t) ==
  {e \in {NumberWords[k] : k \in 1..Len(NumberWords)} : Includes(t, e.word)}

\* C18: the result is a non-negative integer; if the lower-cased text holds a
\* standalone run of decimal digits the result is the value of the first one,
\* whatever number words the text holds; if the text is empty or holds neither
\* a standalone run nor a dictionary word the result is 0.
C18_DigitsFirst ==
  QuantityReturned =>
    LET t == LowerCase(pure.text) IN
    /\ pure.result \in Nat
    /\ \A i, j \in 1..Len(t) :
         (/\ StandaloneRun(t, i, j)
          /\ \A i2, j2 \in 1..Len(t) : StandaloneRun(t, i2, j2) => i <= i2)
           => pure.result = SumDigits(t, i, j)
    /\ (pure.text = <<>> \/ (~HasStandaloneRun(t) /\ EntriesIn(t) = {}))
         => pure.result = 0

\* C18 witness: a text with a number word ahead of a standalone digit run
\* returned the value of the run.
C18_Witness ==
  /\ QuantityReturned
  /\ pure.text = <<"S", "e", "v", "e", "n", " ", "1", "2">>
  /\ pure.result = 12

\* C19: without a standalone digit run the result is the value of the first
\* entry, in the order zero, one, ..., twenty, whose word is a substring of
\* the text, wherever the words occur.
C19_FirstDictionaryWord ==
  QuantityReturned =>
    LET t == LowerCase(pure.text) IN
    (~HasStandaloneRun(t) /\ EntriesIn(t) # {})
      => \E e \in EntriesIn(t) :
           /\ \A e2 \in EntriesIn(t) : e.value <= e2.value
           /\ pure.result = e.value

\* C19 witness: the text nineteen returned 9.
C19_Witness ==
  /\ QuantityReturned
  /\ pure.text = <<"n", "i", "n", "e", "t", "e", "e", "n">>
  /\ pure.result = 9


\* ------------------------------------------------------------------------
\* Barcode scan: credentials, conflicts and success flags
\* ------------------------------------------------------------------------
\* C21: a POST /api/scan-barcode request carrying imageData while the vision
\* credential is missing is answered with a demo-mode scan result, not with
\* an error response.
C21_MissingKeyDemo ==
  [][\A s \in SReqs :
       (ScanBarcode(s, TRUE) /\ ~visionKey) =>
         /\ sreq'[s].pc = "responded" => sreq'[s].resp.kind = "demo"
         /\ sreq'[s].resp.status # 500]_vars


\* C24: a scan whose existence check returns while the catalog has no product
\* with its barcode calls createProduct, whether or not another scan has
\* called createProduct for the same barcode and is awaiting it: the check
\* and the create are not one atomic step.
C24_CheckThenCreate ==
  [][\A s \in SReqs :
       (GetProductReturns(s) /\ InCatalog(catalog, sreq[s].barcode) = {})
         => /\ sreq'[s].pc = "awaitCreate"
            /\ createCount'[sreq[s].barcode] = createCount[sreq[s].barcode] + 1]_vars

\* C24 witness: two scans of the same barcode, unseen so far, have both read
\* that no product exists and both called createProduct.
C24_Witness ==
  \E b \in Barcodes :
    /\ \A s \in SReqs :
         /\ sreq[s].pc = "awaitCreate"
         /\ sreq[s].barcode = b
         /\ sreq[s].absent
    /\ InCatalog(catalog, b) = {}
    /\ createCount[b] = 2

\* C25: when createProduct fails on the uniqueness conflict the response
\* carries the existing catalog product of the barcode in its product field.
C25_ConflictReturnsExisting ==
  [][\A s \in SReqs :
       CreateProductRejects(s) =>
         sreq'[s].resp.product \in InCatalog(catalog, sreq[s].barcode)]_vars

\* C28: once lookupProductByBarcode has returned, POST /api/scan-barcode
\* responds with success true iff the result's source is not fallback, and
\* that is the success flag GET /api/upc-lookup reports for the same result.
C28_SuccessIffResolved ==
  \A s \in SReqs :
    (/\ sreq[s].pc = "responded"
     /\ sreq[s].route = "scan"
     /\ sreq[s].info.source # "none")
      => /\ sreq[s].resp.success <=> sreq[s].info.source # "fallback"
         /\ sreq[s].resp.success <=> sreq[s].info.name # "Unknown Product"


\* ------------------------------------------------------------------------
\* Forecasts and reorders: further properties
\* ------------------------------------------------------------------------
\* C29: a suggestion for a product whose lastCountQuantity (0 included) and
\* parLevel are recorded carries exactly those values as currentStock and
\* normalParLevel.
C29_RecordedValuesUsed ==
  ReordersReturned =>
    \A i \in 1..Len(pure.suggestions) :
      LET product == pure.currentInventory[pure.suggestions[i].productId] IN
      (product.lastCountQuantity # Null /\ product.parLevel # Null)
        => /\ pure.suggestions[i].currentStock = product.lastCountQuantity
           /\ pure.suggestions[i].normalParLevel = product.parLevel

\* The place of a category in the order Beer, Wine, Spirits, All Categories.
CategoryRank(category) ==
  CASE category = "Beer" -> 1
    [] category = "Wine" -> 2
    [] category = "Spirits" -> 3
    [] category = "All Categories" -> 4

\* C30: for every observation the list returned is not empty and its
\* categories follow the order Beer, Wine, Spirits, All Categories, each at
\* most once.
C30_NonEmptyOrdered ==
  ForecastReturned =>
    /\ pure.forecasts # <<>>
    /\ \A i, j \in 1..Len(pure.forecasts) :
         i < j => CategoryRank(pure.forecasts[i].productCategory)
                    < CategoryRank(pure.forecasts[j].productCategory)

\* C30 witness: an observation for which the four rules fired returned Beer,
\* Wine, Spirits and All Categories in this order.
C30_Witness ==
  /\ ForecastReturned
  /\ [i \in 1..Len(pure.forecasts) |-> pure.forecasts[i].productCategory]
       = <<"Beer", "Wine", "Spirits", "All Categories">>

====
